---- MODULE Spec2Model ----
(***************************************************************************)
(* A state-machine model of src/components/GraphEditor.tsx: the React      *)
(* state cells of the GraphEditor component and its event handlers.        *)
(* Every handler runs to completion on the state of the latest render, so  *)
(* each handler invocation is one atomic action.                           *)
(***************************************************************************)
EXTENDS Integers, Sequences, FiniteSets, TLC

(***************************************************************************)
(* Numbers.  JavaScript numbers are modelled as exact rationals <<n, d>>   *)
(* in lowest terms with d > 0; IEEE-754 rounding is not modelled.          *)
(***************************************************************************)
Abs(n) == IF n < 0 THEN -n ELSE n

RECURSIVE GCD(_, _)
GCD(a, b) == IF b = 0 THEN a ELSE GCD(b, a % b)

\* (Operands are bound through one-element sets, so that an operand that is
\* itself an expression is evaluated once.)
Norm(n0, d0) ==
    CHOOSE r \in { IF d < 0 THEN <<(-n) \div g, (-d) \div g>>
                   ELSE <<n \div g, d \div g>> :
                   <<n, d, g>> \in {<<n0, d0, GCD(Abs(n0), Abs(d0))>>} } : TRUE

Num(n) == <<n, 1>>
Frac(n, d) == Norm(n, d)
RAdd(x, y) ==
    CHOOSE r \in { Norm(a[1] * b[2] + b[1] * a[2], a[2] * b[2]) :
                   a \in {x}, b \in {y} } : TRUE
RSub(x, y) ==
    CHOOSE r \in { Norm(a[1] * b[2] - b[1] * a[2], a[2] * b[2]) :
                   a \in {x}, b \in {y} } : TRUE
RMul(x, y) ==
    CHOOSE r \in { Norm(a[1] * b[1], a[2] * b[2]) : a \in {x}, b \in {y} } : TRUE
RDiv(x, y) ==
    CHOOSE r \in { Norm(a[1] * b[2], a[2] * b[1]) : a \in {x}, b \in {y} } : TRUE
RLe(x, y) == \E a \in {x}, b \in {y} : a[1] * b[2] <= b[1] * a[2]
RLt(x, y) == \E a \in {x}, b \in {y} : a[1] * b[2] < b[1] * a[2]
RAbs(x) == CHOOSE r \in { <<Abs(a[1]), a[2]>> : a \in {x} } : TRUE

\* Math.min / Math.max
MathMin(x, y) ==
    CHOOSE r \in { IF RLe(a, b) THEN a ELSE b : a \in {x}, b \in {y} } : TRUE
MathMax(x, y) ==
    CHOOSE r \in { IF RLe(a, b) THEN b ELSE a : a \in {x}, b \in {y} } : TRUE

(***************************************************************************)
(* Strings.  A string is a sequence of one-character strings (ids) or of   *)
(* code points (node texts and the search query).                          *)
(***************************************************************************)
Digits == <<"0", "1", "2", "3", "4", "5", "6", "7", "8", "9">>

\* Number.prototype.toString of a non-negative integer: its decimal digits.
RECURSIVE toString(_)
toString(n) == IF n < 10 THEN <<Digits[n + 1]>>
               ELSE Append(toString(n \div 10), Digits[(n % 10) + 1])

\* null (selectedNode, editingNode, dragNode); no id is this value.
NULL == <<"null">>

(***************************************************************************)
(* State: the useState cells of GraphEditor (lines 25-47), the wall clock  *)
(* read by Date.now() / new Date().getTime(), and the toast emitted by the *)
(* most recent handler.  ev, grab and lastDown are history variables: they   *)
(* record the most recent event, the start of the current node drag and    *)
(* the branch the latest node pointerdown took, and no handler reads them. *)
(***************************************************************************)
VARIABLES nodes, edges, selectedNode, editingNode, searchQuery,
          dragNode, dragOffset, pan, zoom, isPanning, panStart,
          isMobile, showSidebar, lastTap, clock, toast, ev, grab, lastDown

store == <<nodes, edges>>
session == <<selectedNode, editingNode>>
gesture == <<dragNode, dragOffset, isPanning, panStart, lastTap>>
view == <<pan, zoom>>
chrome == <<isMobile, showSidebar>>
prog == <<nodes, edges, selectedNode, editingNode, searchQuery, dragNode,
          dragOffset, pan, zoom, isPanning, panStart, isMobile, showSidebar,
          lastTap>>
vars == <<nodes, edges, selectedNode, editingNode, searchQuery, dragNode,
          dragOffset, pan, zoom, isPanning, panStart, isMobile, showSidebar,
          lastTap, clock, toast, ev, grab, lastDown>>

Node(id, text, x, y) == [id |-> id, text |-> text, x |-> x, y |-> y]
Edge(id, from, to, type) == [id |-> id, from |-> from, to |-> to, type |-> type]
Point(x, y) == [x |-> x, y |-> y]

\* useState initial values, lines 25-29 and 31-34
InitNodes ==
    << Node(<<"1">>, <<1053, 1072, 1095, 1072, 1083, 1100, 1085, 1072, 1103,
                       32, 1080, 1076, 1077, 1103>>, Num(200), Num(150)),
       Node(<<"2">>, <<1056, 1072, 1079, 1074, 1080, 1090, 1080, 1077, 32,
                       1082, 1086, 1085, 1094, 1077, 1087, 1094, 1080, 1080>>,
            Num(450), Num(150)),
       Node(<<"3">>, <<1040, 1083, 1100, 1090, 1077, 1088, 1085, 1072, 1090,
                       1080, 1074, 1085, 1099, 1081, 32, 1087, 1086, 1076,
                       1093, 1086, 1076>>, Num(325), Num(300)) >>

InitEdges ==
    << Edge(<<"e", "1">>, <<"1">>, <<"2">>, "primary"),
       Edge(<<"e", "2">>, <<"2">>, <<"3">>, "alias") >>

\* text of a node made by addNode, line 55
NewNodeText == <<1053, 1086, 1074, 1099, 1081, 32, 1091, 1079, 1077, 1083>>

NoToast == <<"none", "">>
NoEvent == <<"init", NULL, 0>>
NoGrab == [node |-> NULL, p0 |-> <<0, 0>>, p |-> <<0, 0>>,
           x0 |-> Num(0), y0 |-> Num(0), stable |-> TRUE]

(***************************************************************************)
(* Helpers                                                                 *)
(***************************************************************************)
\* whether nodes.find(n => n.id === id) finds a node
has(ns, id) == \E i \in 1..Len(ns) : ns[i].id = id

\* nodes.find(n => n.id === id) when it finds one: the first match
find(ns, id) ==
    ns[CHOOSE i \in 1..Len(ns) :
           /\ ns[i].id = id
           /\ \A j \in 1..(i - 1) : ns[j].id # id]

\* e.clientX || (e as any).touches?.[0]?.clientX || 0 for a pointer event,
\* which has no touches list: a zero or missing coordinate reads as 0
clientCoord(c) == IF c # 0 THEN c ELSE 0

\* (clientX - pan.x) / zoom, lines 134-135 and 157-158
toWorld(c, panc, z) == RDiv(RSub(Num(clientCoord(c)), panc), z)

(***************************************************************************)
(* Pointer handlers                                                        *)
(***************************************************************************)
\* the double-tap window of line 123, in milliseconds
TapWindow == 300

\* (A variant of handleNodePointerDown whose double-tap branch makes the
\* event's time the reference time.)
handleNodePointerDownKeepsTap(nodeId, p) ==
    LET currentTime == clock
        tapGap == currentTime - lastTap
        keep == [editingNode |-> editingNode, lastTap |-> lastTap,
                 dragNode |-> dragNode, selectedNode |-> selectedNode,
                 showSidebar |-> showSidebar, dragOffset |-> dragOffset,
                 stopped |-> FALSE]
    IN  IF ~has(nodes, nodeId) THEN keep
        ELSE IF tapGap < TapWindow /\ tapGap > 0
        THEN [keep EXCEPT !.editingNode = nodeId, !.lastTap = currentTime]
        ELSE LET node == find(nodes, nodeId)
             IN  [keep EXCEPT
                    !.lastTap = currentTime,
                    !.dragNode = nodeId,
                    !.selectedNode = nodeId,
                    !.showSidebar = IF isMobile THEN TRUE ELSE @,
                    !.dragOffset =
                        Point(RSub(toWorld(p[1], pan.x, zoom), node.x),
                              RSub(toWorld(p[2], pan.y, zoom), node.y)),
                    !.stopped = TRUE]

\* (A variant of handleNodePointerDown whose double tap must hit the
\* selected node.)
handleNodePointerDownSameNode(nodeId, p) ==
    LET currentTime == clock
        tapGap == currentTime - lastTap
        keep == [editingNode |-> editingNode, lastTap |-> lastTap,
                 dragNode |-> dragNode, selectedNode |-> selectedNode,
                 showSidebar |-> showSidebar, dragOffset |-> dragOffset,
                 stopped |-> FALSE]
    IN  IF ~has(nodes, nodeId) THEN keep
        ELSE IF tapGap < TapWindow /\ tapGap > 0 /\ nodeId = selectedNode
        THEN [keep EXCEPT !.editingNode = nodeId, !.lastTap = 0]
        ELSE LET node == find(nodes, nodeId)
             IN  [keep EXCEPT
                    !.lastTap = currentTime,
                    !.dragNode = nodeId,
                    !.selectedNode = nodeId,
                    !.showSidebar = IF isMobile THEN TRUE ELSE @,
                    !.dragOffset =
                        Point(RSub(toWorld(p[1], pan.x, zoom), node.x),
                              RSub(toWorld(p[2], pan.y, zoom), node.y)),
                    !.stopped = TRUE]

\* (A variant of handleNodePointerDown whose grab offset is taken in screen
\* units, without the division by zoom.)
handleNodePointerDownUnscaled(nodeId, p) ==
    LET currentTime == clock
        tapGap == currentTime - lastTap
        keep == [editingNode |-> editingNode, lastTap |-> lastTap,
                 dragNode |-> dragNode, selectedNode |-> selectedNode,
                 showSidebar |-> showSidebar, dragOffset |-> dragOffset,
                 stopped |-> FALSE]
    IN  IF ~has(nodes, nodeId) THEN keep
        ELSE IF tapGap < TapWindow /\ tapGap > 0
        THEN [keep EXCEPT !.editingNode = nodeId, !.lastTap = 0]
        ELSE LET node == find(nodes, nodeId)
             IN  [keep EXCEPT
                    !.lastTap = currentTime,
                    !.dragNode = nodeId,
                    !.selectedNode = nodeId,
                    !.showSidebar = IF isMobile THEN TRUE ELSE @,
                    !.dragOffset =
                        Point(RSub(RSub(Num(clientCoord(p[1])), pan.x), node.x),
                              RSub(RSub(Num(clientCoord(p[2])), pan.y), node.y)),
                    !.stopped = TRUE]

\* handleNodePointerDown, lines 113-138: the values it leaves in the cells
\* it writes, and whether it reached e.stopPropagation()
handleNodePointerDown(nodeId, p) ==
    LET currentTime == clock
        tapGap == currentTime - lastTap
        keep == [editingNode |-> editingNode, lastTap |-> lastTap,
                 dragNode |-> dragNode, selectedNode |-> selectedNode,
                 showSidebar |-> showSidebar, dragOffset |-> dragOffset,
                 stopped |-> FALSE]
    IN  IF ~has(nodes, nodeId) THEN keep
        ELSE IF tapGap < TapWindow /\ tapGap > 0
        THEN [keep EXCEPT !.editingNode = nodeId, !.lastTap = 0]
        ELSE LET node == find(nodes, nodeId)
             IN  [keep EXCEPT
                    !.lastTap = currentTime,
                    !.dragNode = nodeId,
                    !.selectedNode = nodeId,
                    !.showSidebar = IF isMobile THEN TRUE ELSE @,
                    !.dragOffset =
                        Point(RSub(toWorld(p[1], pan.x, zoom), node.x),
                              RSub(toWorld(p[2], pan.y, zoom), node.y)),
                    !.stopped = TRUE]

\* (A variant of handleCanvasPointerDown without the test of line 141.)
handleCanvasPointerDownAnywhere(onNode, p, sel, side) ==
    [isPanning |-> TRUE,
     panStart |-> Point(RSub(Num(clientCoord(p[1])), pan.x),
                        RSub(Num(clientCoord(p[2])), pan.y)),
     selectedNode |-> NULL,
     showSidebar |-> IF isMobile THEN FALSE ELSE side]

\* (A variant of handleCanvasPointerDown whose anchor is the pointer
\* itself, without the pan offset taken off.)
handleCanvasPointerDownRawAnchor(onNode, p, sel, side) ==
    IF onNode
    THEN [isPanning |-> isPanning, panStart |-> panStart,
          selectedNode |-> sel, showSidebar |-> side]
    ELSE [isPanning |-> TRUE,
          panStart |-> Point(Num(clientCoord(p[1])), Num(clientCoord(p[2]))),
          selectedNode |-> NULL,
          showSidebar |-> IF isMobile THEN FALSE ELSE side]

\* handleCanvasPointerDown, lines 140-150, run after the cells selectedNode
\* and showSidebar hold sel and side; onNode: the event target lies inside
\* a .graph-node element
handleCanvasPointerDown(onNode, p, sel, side) ==
    IF onNode
    THEN [isPanning |-> isPanning, panStart |-> panStart,
          selectedNode |-> sel, showSidebar |-> side]
    ELSE [isPanning |-> TRUE,
          panStart |-> Point(RSub(Num(clientCoord(p[1])), pan.x),
                             RSub(Num(clientCoord(p[2])), pan.y)),
          selectedNode |-> NULL,
          showSidebar |-> IF isMobile THEN FALSE ELSE side]

\* pointerdown on the card of node nodeId (line 290); unless the node
\* handler stopped it, the event bubbles to the canvas (line 224)
NodePointerDown(nodeId, p) ==
    LET n == handleNodePointerDown(nodeId, p)
        c == IF n.stopped
             THEN [isPanning |-> isPanning, panStart |-> panStart,
                   selectedNode |-> n.selectedNode,
                   showSidebar |-> n.showSidebar]
             ELSE handleCanvasPointerDown(TRUE, p, n.selectedNode, n.showSidebar)
    IN  /\ editingNode' = n.editingNode
        /\ lastTap' = n.lastTap
        /\ dragNode' = n.dragNode
        /\ dragOffset' = n.dragOffset
        /\ selectedNode' = c.selectedNode
        /\ showSidebar' = c.showSidebar
        /\ isPanning' = c.isPanning
        /\ panStart' = c.panStart
        /\ toast' = NoToast
        /\ UNCHANGED <<nodes, edges, searchQuery, pan, zoom, isMobile, clock>>

\* pointerdown on the canvas outside every card (line 224)
CanvasPointerDown(p) ==
    LET c == handleCanvasPointerDown(FALSE, p, selectedNode, showSidebar)
    IN  /\ isPanning' = c.isPanning
        /\ panStart' = c.panStart
        /\ selectedNode' = c.selectedNode
        /\ showSidebar' = c.showSidebar
        /\ toast' = NoToast
        /\ UNCHANGED <<nodes, edges, editingNode, searchQuery, dragNode,
                       dragOffset, pan, zoom, isMobile, lastTap, clock>>

\* (A variant of handlePointerMove that takes the pointer in screen units,
\* without the division by zoom.)
handlePointerMoveUnscaled(p) ==
    /\ IF dragNode # NULL
       THEN LET newX == RSub(RSub(Num(clientCoord(p[1])), pan.x), dragOffset.x)
                newY == RSub(RSub(Num(clientCoord(p[2])), pan.y), dragOffset.y)
            IN  /\ nodes' = [i \in 1..Len(nodes) |->
                                IF nodes[i].id = dragNode
                                THEN [nodes[i] EXCEPT !.x = newX, !.y = newY]
                                ELSE nodes[i]]
                /\ pan' = pan
       ELSE IF isPanning
       THEN /\ pan' = Point(RSub(Num(clientCoord(p[1])), panStart.x),
                            RSub(Num(clientCoord(p[2])), panStart.y))
            /\ nodes' = nodes
       ELSE UNCHANGED <<nodes, pan>>
    /\ toast' = NoToast
    /\ UNCHANGED <<edges, selectedNode, editingNode, searchQuery, dragNode,
                   dragOffset, zoom, isPanning, panStart, isMobile,
                   showSidebar, lastTap, clock>>

\* (A variant of handlePointerMove that, with no drag target, goes on
\* moving the selected node.)
handlePointerMoveSticky(p) ==
    LET target == IF dragNode # NULL THEN dragNode ELSE selectedNode
    IN  /\ IF target # NULL
           THEN LET newX == RSub(toWorld(p[1], pan.x, zoom), dragOffset.x)
                    newY == RSub(toWorld(p[2], pan.y, zoom), dragOffset.y)
                IN  /\ nodes' = [i \in 1..Len(nodes) |->
                                    IF nodes[i].id = target
                                    THEN [nodes[i] EXCEPT !.x = newX, !.y = newY]
                                    ELSE nodes[i]]
                    /\ pan' = pan
           ELSE IF isPanning
           THEN /\ pan' = Point(RSub(Num(clientCoord(p[1])), panStart.x),
                                RSub(Num(clientCoord(p[2])), panStart.y))
                /\ nodes' = nodes
           ELSE UNCHANGED <<nodes, pan>>
        /\ toast' = NoToast
        /\ UNCHANGED <<edges, selectedNode, editingNode, searchQuery, dragNode,
                       dragOffset, zoom, isPanning, panStart, isMobile,
                       showSidebar, lastTap, clock>>

\* handlePointerMove, lines 152-166
handlePointerMove(p) ==
    /\ IF dragNode # NULL
       THEN LET newX == RSub(toWorld(p[1], pan.x, zoom), dragOffset.x)
                newY == RSub(toWorld(p[2], pan.y, zoom), dragOffset.y)
            IN  /\ nodes' = [i \in 1..Len(nodes) |->
                                IF nodes[i].id = dragNode
                                THEN [nodes[i] EXCEPT !.x = newX, !.y = newY]
                                ELSE nodes[i]]
                /\ pan' = pan
       ELSE IF isPanning
       THEN /\ pan' = Point(RSub(Num(clientCoord(p[1])), panStart.x),
                            RSub(Num(clientCoord(p[2])), panStart.y))
            /\ nodes' = nodes
       ELSE UNCHANGED <<nodes, pan>>
    /\ toast' = NoToast
    /\ UNCHANGED <<edges, selectedNode, editingNode, searchQuery, dragNode,
                   dragOffset, zoom, isPanning, panStart, isMobile,
                   showSidebar, lastTap, clock>>

\* handlePointerUp, lines 168-171; also the pointerleave handler (line 227)
handlePointerUp ==
    /\ dragNode' = NULL
    /\ isPanning' = FALSE
    /\ toast' = NoToast
    /\ UNCHANGED <<nodes, edges, selectedNode, editingNode, searchQuery,
                   dragOffset, pan, zoom, panStart, isMobile, showSidebar,
                   lastTap, clock>>

(***************************************************************************)
(* Zoom handlers                                                           *)
(***************************************************************************)
\* (A variant of wheelZoom that leaves out the lower clamp.)
wheelZoomNoFloor(prev, deltaY) ==
    LET delta == IF deltaY > 0 THEN Frac(9, 10) ELSE Frac(11, 10)
    IN  MathMin(RMul(prev, delta), Num(2))

\* Math.min(Math.max(prev * delta, 0.5), 2), line 176
wheelZoom(prev, deltaY) ==
    LET delta == IF deltaY > 0 THEN Frac(9, 10) ELSE Frac(11, 10)
    IN  MathMin(MathMax(RMul(prev, delta), Frac(1, 2)), Num(2))

\* Math.min(prev + 0.2, 2), line 313
zoomInStep(prev) == MathMin(RAdd(prev, Frac(1, 5)), Num(2))

\* Math.max(prev - 0.2, 0.5), line 321
zoomOutStep(prev) == MathMax(RSub(prev, Frac(1, 5)), Frac(1, 2))

notView == <<nodes, edges, selectedNode, editingNode, searchQuery, dragNode,
             dragOffset, isPanning, panStart, isMobile, showSidebar, lastTap,
             clock>>

\* handleWheel, lines 173-177
handleWheel(deltaY) ==
    /\ zoom' = wheelZoom(zoom, deltaY)
    /\ toast' = NoToast
    /\ UNCHANGED <<pan, notView>>

\* zoom-in button, line 313
zoomIn ==
    /\ zoom' = zoomInStep(zoom)
    /\ toast' = NoToast
    /\ UNCHANGED <<pan, notView>>

\* zoom-out button, line 321
zoomOut ==
    /\ zoom' = zoomOutStep(zoom)
    /\ toast' = NoToast
    /\ UNCHANGED <<pan, notView>>

\* (A variant of resetView that resets the zoom factor only.)
resetViewZoomOnly ==
    /\ zoom' = Num(1)
    /\ toast' = NoToast
    /\ UNCHANGED <<pan, notView>>

\* reset button, line 329
resetView ==
    /\ zoom' = Num(1)
    /\ pan' = Point(Num(0), Num(0))
    /\ toast' = NoToast
    /\ UNCHANGED notView

(***************************************************************************)
(* Graph store handlers                                                    *)
(***************************************************************************)
notStore == <<searchQuery, dragNode, dragOffset, pan, zoom, isPanning,
              panStart, isMobile, showSidebar, lastTap, clock>>

\* addNode, lines 52-63; rx, ry: the two Math.random() results
addNode(rx, ry) ==
    LET newNode == Node(toString(clock), NewNodeText,
                        RAdd(Num(300), RMul(rx, Num(100))),
                        RAdd(Num(200), RMul(ry, Num(100))))
    IN  /\ nodes' = Append(nodes, newNode)
        /\ selectedNode' = newNode.id
        /\ editingNode' = newNode.id
        /\ toast' = <<"success", "node created">>
        /\ UNCHANGED <<edges, notStore>>

\* nodes.filter(n => n.id !== id), line 66
nodesWithout(ns, id) == SelectSeq(ns, LAMBDA n : n.id # id)

\* (A variant of edgesWithout that keeps the edges that start at id.)
edgesWithoutTo(es, id) == SelectSeq(es, LAMBDA e : e.to # id)

\* (A variant of edgesWithout that keeps the edges that end at id.)
edgesWithoutFrom(es, id) == SelectSeq(es, LAMBDA e : e.from # id)

\* edges.filter(e => e.from !== id && e.to !== id), line 67
edgesWithout(es, id) == SelectSeq(es, LAMBDA e : e.from # id /\ e.to # id)

\* (A variant of deleteNode that leaves the selection and the edit mode
\* alone.)
deleteNodeKeepsSession(id) ==
    /\ nodes' = nodesWithout(nodes, id)
    /\ edges' = edgesWithout(edges, id)
    /\ toast' = <<"success", "node deleted">>
    /\ UNCHANGED <<selectedNode, editingNode, notStore>>

\* deleteNode, lines 65-71
deleteNode(id) ==
    /\ nodes' = nodesWithout(nodes, id)
    /\ edges' = edgesWithout(edges, id)
    /\ selectedNode' = NULL
    /\ editingNode' = NULL
    /\ toast' = <<"success", "node deleted">>
    /\ UNCHANGED notStore

\* updateNodeText, lines 73-75
updateNodeText(id, text) ==
    /\ nodes' = [i \in 1..Len(nodes) |->
                    IF nodes[i].id = id THEN [nodes[i] EXCEPT !.text = text]
                    ELSE nodes[i]]
    /\ toast' = NoToast
    /\ UNCHANGED <<edges, selectedNode, editingNode, notStore>>

\* (A variant of addEdgeResult whose target is the first node of the store,
\* the selected one included.)
addEdgeResultFirst(type) ==
    IF selectedNode = NULL
    THEN [edges |-> edges, toast |-> NoToast]
    ELSE LET otherNodes == SelectSeq(nodes, LAMBDA n : n.id # selectedNode)
         IN  IF Len(otherNodes) = 0
             THEN [edges |-> edges, toast |-> <<"error", "need another node">>]
             ELSE LET targetNode == nodes[1]
                      newEdge == Edge(toString(clock), selectedNode,
                                      targetNode.id, type)
                  IN  [edges |-> Append(edges, newEdge),
                       toast |-> <<"success", type>>]

\* addEdge, lines 77-95: the new edge list and the toast
addEdgeResult(type) ==
    IF selectedNode = NULL
    THEN [edges |-> edges, toast |-> NoToast]
    ELSE LET otherNodes == SelectSeq(nodes, LAMBDA n : n.id # selectedNode)
         IN  IF Len(otherNodes) = 0
             THEN [edges |-> edges, toast |-> <<"error", "need another node">>]
             ELSE LET targetNode == otherNodes[1]
                      newEdge == Edge(toString(clock), selectedNode,
                                      targetNode.id, type)
                  IN  [edges |-> Append(edges, newEdge),
                       toast |-> <<"success", type>>]

addEdge(type) ==
    /\ edges' = addEdgeResult(type).edges
    /\ toast' = addEdgeResult(type).toast
    /\ UNCHANGED <<nodes, selectedNode, editingNode, notStore>>

\* deleteEdge, lines 97-100
deleteEdge(id) ==
    /\ edges' = SelectSeq(edges, LAMBDA e : e.id # id)
    /\ toast' = <<"success", "edge deleted">>
    /\ UNCHANGED <<nodes, selectedNode, editingNode, notStore>>

notChrome == <<nodes, edges, selectedNode, dragNode, dragOffset, pan, zoom,
               isPanning, panStart, isMobile, lastTap, clock>>

\* search input onChange, line 213
setSearchQuery(q) ==
    /\ searchQuery' = q
    /\ toast' = NoToast
    /\ UNCHANGED <<editingNode, showSidebar, notChrome>>

\* inline textarea onBlur, line 296
blurEditor ==
    /\ editingNode' = NULL
    /\ toast' = NoToast
    /\ UNCHANGED <<searchQuery, showSidebar, notChrome>>

\* header button, line 196
toggleSidebar ==
    /\ showSidebar' = ~showSidebar
    /\ toast' = NoToast
    /\ UNCHANGED <<searchQuery, editingNode, notChrome>>

\* sidebar close button, line 355
closeSidebar ==
    /\ showSidebar' = FALSE
    /\ toast' = NoToast
    /\ UNCHANGED <<searchQuery, editingNode, notChrome>>

(***************************************************************************)
(* View filter, lines 102-111                                              *)
(***************************************************************************)
\* String.prototype.toLowerCase on the letters A-Z and the Cyrillic capitals
\* U+0410..U+042F; every other code point used here has no lower-case form
toLowerCase(t) ==
    [i \in 1..Len(t) |->
        IF (t[i] >= 65 /\ t[i] <= 90) \/ (t[i] >= 1040 /\ t[i] <= 1071)
        THEN t[i] + 32 ELSE t[i]]

\* String.prototype.includes
includes(t, q) ==
    \E k \in 0..(Len(t) - Len(q)) :
        \A j \in 1..Len(q) : t[k + j] = q[j]

\* lines 102-104
filteredNodesOf(ns, q) ==
    SelectSeq(ns, LAMBDA node : includes(toLowerCase(node.text), toLowerCase(q)))

\* (A variant of filteredEdgesOf that shows an edge when either endpoint is
\* visible.)
filteredEdgesEither(ns, es, q) ==
    IF q # <<>>
    THEN SelectSeq(es, LAMBDA edge :
            \/ \E i \in 1..Len(filteredNodesOf(ns, q)) :
                   filteredNodesOf(ns, q)[i].id = edge.from
            \/ \E i \in 1..Len(filteredNodesOf(ns, q)) :
                   filteredNodesOf(ns, q)[i].id = edge.to)
    ELSE es

\* lines 106-111; a non-empty string is truthy
filteredEdgesOf(ns, es, q) ==
    IF q # <<>>
    THEN SelectSeq(es, LAMBDA edge :
            /\ \E i \in 1..Len(filteredNodesOf(ns, q)) :
                   filteredNodesOf(ns, q)[i].id = edge.from
            /\ \E i \in 1..Len(filteredNodesOf(ns, q)) :
                   filteredNodesOf(ns, q)[i].id = edge.to)
    ELSE es

filteredNodes == filteredNodesOf(nodes, searchQuery)
filteredEdges == filteredEdgesOf(nodes, edges, searchQuery)

\* line 179: the sidebar is rendered when the selected id names a node
selectedNodeData == selectedNode # NULL /\ has(nodes, selectedNode)

\* lines 337-341: the sidebar's buttons can be pressed
sidebarShown == selectedNodeData /\ (isMobile => showSidebar)

(***************************************************************************)
(* History variables                                                       *)
(***************************************************************************)
\* ev: the most recent event, one argument of it and one number.
\* lastDown: how the latest pointerdown on the card of a node in the store
\* ended: "first" (it reached line 128), "double" (it returned at line 126)
\* or "none" (there has been no such pointerdown).
Log(op, id, n) ==
    /\ ev' = <<op, id, n>>
    /\ lastDown' = IF op = "nodeDown" /\ has(nodes, id)
                   THEN IF handleNodePointerDown(id, <<0, 0>>).stopped
                        THEN "first" ELSE "double"
                   ELSE lastDown

\* grab: the node drag in progress: the dragged id, the pointer at the
\* pointerdown (p0), the latest pointer (p), the node's position at the
\* pointerdown, and whether pan and zoom have stayed as they were since
GrabOnDown(nodeId, p) ==
    grab' = IF handleNodePointerDown(nodeId, p).stopped
            THEN [node |-> nodeId, p0 |-> p, p |-> p,
                  x0 |-> find(nodes, nodeId).x, y0 |-> find(nodes, nodeId).y,
                  stable |-> TRUE]
            ELSE grab

GrabOnMove(p) ==
    grab' = IF grab.node # NULL THEN [grab EXCEPT !.p = p] ELSE grab

GrabOnView ==
    grab' = IF grab.node # NULL /\ <<pan', zoom'>> # <<pan, zoom>>
            THEN [grab EXCEPT !.stable = FALSE] ELSE grab

(***************************************************************************)
(* Bounds of the model                                                     *)
(***************************************************************************)
\* Date.now() at the start of the session
StartTime == 1000
\* the instants at which events are modelled
Instants == {StartTime, StartTime + TapWindow - 1, StartTime + TapWindow}
\* how far, in world units, a drag may take a node from where the session
\* put it, and how far a pan gesture may take the pan offset from (0, 0)
MaxShift == 34
MaxPan == 30
\* the largest denominator of a zoom factor the model follows
MaxZoomDen == 20

\* an id that no node and no edge has
Stale == <<"9">>

\* deltaY of wheel events
WheelDeltas == {-100, 0, 100}

\* the pairs of Math.random() results of addNode
Randoms == {<<Frac(1, 4), Frac(3, 4)>>}

\* where the session, or addNode, put node id
Home(id) ==
    IF has(InitNodes, id) THEN find(InitNodes, id)
    ELSE CHOOSE n \in { Node(id, NewNodeText,
                             RAdd(Num(300), RMul(r[1], Num(100))),
                             RAdd(Num(200), RMul(r[2], Num(100)))) :
                        r \in Randoms } : TRUE

NodesInReach ==
    \A i \in 1..Len(nodes) :
        /\ RLe(RAbs(RSub(nodes[i].x, Home(nodes[i].id).x)), Num(MaxShift))
        /\ RLe(RAbs(RSub(nodes[i].y, Home(nodes[i].id).y)), Num(MaxShift))

PanInReach ==
    /\ RLe(RAbs(pan.x), Num(MaxPan))
    /\ RLe(RAbs(pan.y), Num(MaxPan))

ZoomInReach == zoom[2] <= MaxZoomDen

\* the clock moves on between events
Tick(t) ==
    /\ t > clock
    /\ clock' = t
    /\ UNCHANGED <<prog, toast, ev, grab, lastDown>>

\* the state after construction, lines 25-47; mobile: window.innerWidth < 768
Start(mobile) ==
    /\ nodes = InitNodes
    /\ edges = InitEdges
    /\ selectedNode = NULL
    /\ editingNode = NULL
    /\ searchQuery = <<>>
    /\ dragNode = NULL
    /\ dragOffset = Point(Num(0), Num(0))
    /\ pan = Point(Num(0), Num(0))
    /\ zoom = Num(1)
    /\ isPanning = FALSE
    /\ panStart = Point(Num(0), Num(0))
    /\ isMobile = mobile
    /\ showSidebar = FALSE
    /\ lastTap = 0
    /\ clock = StartTime
    /\ toast = NoToast
    /\ ev = NoEvent
    /\ grab = NoGrab
    /\ lastDown = "none"

(***************************************************************************)
(* Events, with the history variables                                      *)
(***************************************************************************)
NodeDown(i, p) ==
    /\ NodePointerDown(filteredNodes[i].id, p)
    /\ Log("nodeDown", filteredNodes[i].id, clock - lastTap)
    /\ GrabOnDown(filteredNodes[i].id, p)

\* the card handler called with an id that names no node
StaleDown(p) ==
    /\ NodePointerDown(Stale, p)
    /\ Log("nodeDown", Stale, clock - lastTap)
    /\ GrabOnDown(Stale, p)

CanvasDown(p) ==
    /\ CanvasPointerDown(p)
    /\ Log("canvasDown", NULL, 0)
    /\ UNCHANGED grab

Move(p) ==
    /\ handlePointerMove(p)
    /\ NodesInReach'
    /\ PanInReach'
    /\ Log("move", NULL, 0)
    /\ GrabOnMove(p)

Up ==
    /\ handlePointerUp
    /\ Log("up", NULL, 0)
    /\ grab' = NoGrab

WheelStep(deltaY) ==
    /\ handleWheel(deltaY)
    /\ Log("wheel", NULL, deltaY)
    /\ GrabOnView

ZoomInStep ==
    /\ zoomIn
    /\ Log("zoomIn", NULL, 0)
    /\ GrabOnView

ZoomOutStep ==
    /\ zoomOut
    /\ Log("zoomOut", NULL, 0)
    /\ GrabOnView

\* (the number logged: whether the view was off its defaults)
ResetStep ==
    /\ resetView
    /\ Log("reset", NULL,
           IF pan = Point(Num(0), Num(0)) /\ zoom = Num(1) THEN 0 ELSE 1)
    /\ GrabOnView

BlurStep ==
    /\ editingNode # NULL
    /\ blurEditor
    /\ Log("blur", NULL, 0)
    /\ UNCHANGED grab

(***************************************************************************)
(* Spec: the zoom handlers among pointer events at the screen origin       *)
(***************************************************************************)
Origin == {<<0, 0>>}

Init == Start(FALSE)

Next ==
    \/ \E i \in 1..Len(filteredNodes), p \in Origin : NodeDown(i, p)
    \/ \E p \in Origin : CanvasDown(p)
    \/ \E p \in Origin : Move(p)
    \/ Up
    \/ \E deltaY \in WheelDeltas : WheelStep(deltaY) /\ ZoomInReach'
    \/ ZoomInStep /\ ZoomInReach'
    \/ ZoomOutStep /\ ZoomInReach'
    \/ ResetStep

Spec == Init /\ [][Next]_vars

(***************************************************************************)
(* Viewports the later specifications start from: the initial one, and the *)
(* one left by a pan gesture from (120, 90) to (150, 60) followed by one   *)
(* wheel notch (deltaY > 0)                                                *)
(***************************************************************************)
Views ==
    { [pan |-> Point(Num(0), Num(0)), zoom |-> Num(1),
       panStart |-> Point(Num(0), Num(0))],
      [pan |-> Point(Num(30), Num(-30)), zoom |-> Frac(9, 10),
       panStart |-> Point(Num(120), Num(90))] }

StartAt(v) ==
    /\ nodes = InitNodes
    /\ edges = InitEdges
    /\ selectedNode = NULL
    /\ editingNode = NULL
    /\ searchQuery = <<>>
    /\ dragNode = NULL
    /\ dragOffset = Point(Num(0), Num(0))
    /\ pan = v.pan
    /\ zoom = v.zoom
    /\ isPanning = FALSE
    /\ panStart = v.panStart
    /\ isMobile = FALSE
    /\ showSidebar = FALSE
    /\ lastTap = 0
    /\ clock = StartTime
    /\ toast = NoToast
    /\ ev = NoEvent
    /\ grab = NoGrab
    /\ lastDown = "none"

(***************************************************************************)
(* SpecTap: taps on the cards at one screen point, as time passes          *)
(***************************************************************************)
TapPoints == {<<120, 90>>}

InitTap == \E v \in Views : StartAt(v)

NextTap ==
    \/ \E t \in Instants : Tick(t)
    \/ \E i \in 1..Len(filteredNodes), p \in TapPoints : NodeDown(i, p)
    \/ \E p \in TapPoints : StaleDown(p)
    \/ \E p \in TapPoints : CanvasDown(p)
    \/ \E p \in TapPoints : Move(p)
    \/ Up
    \/ BlurStep

SpecTap == InitTap /\ [][NextTap]_vars

(***************************************************************************)
(* SpecDrag: drags and pans between two screen points                      *)
(***************************************************************************)
Points == {<<120, 90>>, <<150, 60>>}
\* the cards that are pressed
DragCards == {1}

InitDrag == \E v \in Views : StartAt(v)

NextDrag ==
    \/ \E i \in DragCards, p \in Points : NodeDown(i, p)
    \/ \E p \in Points : CanvasDown(p)
    \/ \E p \in Points : Move(p)
    \/ Up
    \/ ResetStep

SpecDrag == InitDrag /\ [][NextDrag]_vars

(***************************************************************************)
(* SpecStore: the graph store handlers, called with any id                 *)
(***************************************************************************)
\* the sizes up to which the collections are followed
MaxNodes == 4
MaxEdges == 3
\* the later instant of this specification: one millisecond on
StoreInstants == {StartTime + 1}

NodeIds == {nodes[i].id : i \in 1..Len(nodes)}
EdgeIds == {edges[i].id : i \in 1..Len(edges)}

AddNodeStep(r) ==
    /\ Len(nodes) < MaxNodes
    /\ addNode(r[1], r[2])
    /\ Log("addNode", NULL, 0)
    /\ UNCHANGED grab

DeleteNodeStep(id) ==
    /\ deleteNode(id)
    /\ Log("deleteNode", NULL, 0)
    /\ UNCHANGED grab

AddEdgeStep(type) ==
    /\ Len(edges) < MaxEdges
    /\ addEdge(type)
    /\ Log("addEdge", NULL, 0)
    /\ UNCHANGED grab

DeleteEdgeStep(id) ==
    /\ deleteEdge(id)
    /\ Log("deleteEdge", NULL, 0)
    /\ UNCHANGED grab

UpdateTextStep(id, text) ==
    /\ updateNodeText(id, text)
    /\ Log("updateNodeText", id, 0)
    /\ UNCHANGED grab

SearchStep(q) ==
    /\ setSearchQuery(q)
    /\ Log("setSearchQuery", NULL, 0)
    /\ UNCHANGED grab

\* The session starts with no card clicked yet, or just after a click
\* (pointerdown, pointerup) at (120, 90) on the card of node k, the first
\* or the last node of the store.
Clicked(k) ==
    /\ nodes = InitNodes
    /\ edges = InitEdges
    /\ selectedNode = InitNodes[k].id
    /\ editingNode = NULL
    /\ searchQuery = <<>>
    /\ dragNode = NULL
    /\ dragOffset = Point(RSub(Num(120), InitNodes[k].x),
                          RSub(Num(90), InitNodes[k].y))
    /\ pan = Point(Num(0), Num(0))
    /\ zoom = Num(1)
    /\ isPanning = FALSE
    /\ panStart = Point(Num(0), Num(0))
    /\ isMobile = FALSE
    /\ showSidebar = FALSE
    /\ lastTap = StartTime
    /\ clock = StartTime
    /\ toast = NoToast
    /\ ev = NoEvent
    /\ grab = NoGrab
    /\ lastDown = "first"

InitStore == Start(FALSE) \/ \E k \in {1, Len(InitNodes)} : Clicked(k)

NextStore ==
    \/ \E t \in StoreInstants : Tick(t)
    \/ \E r \in Randoms : AddNodeStep(r)
    \/ \E id \in NodeIds \cup {Stale} : DeleteNodeStep(id)
    \/ \E type \in {"primary", "alias"} : AddEdgeStep(type)
    \/ \E id \in EdgeIds \cup {Stale} : DeleteEdgeStep(id)

SpecStore == InitStore /\ [][NextStore]_vars

(***************************************************************************)
(* SpecFilter: the view filter, as texts, the query and the graph change   *)
(***************************************************************************)
\* "Alpha", "beta", "ALBE" and the empty text
Texts == { <<65, 108, 112, 104, 97>>, <<98, 101, 116, 97>>,
           <<65, 76, 66, 69>>, <<>> }
\* "", "alpha", "BE", the Cyrillic capital and small letter en, and "z"
Queries == { <<>>, <<97, 108, 112, 104, 97>>, <<66, 69>>, <<1053>>, <<1085>>,
             <<122>> }

InitFilter == Start(FALSE)

NextFilter ==
    \/ \E q \in Queries : SearchStep(q)
    \/ \E id \in NodeIds \cup {Stale}, text \in Texts : UpdateTextStep(id, text)
    \/ \E id \in NodeIds : DeleteNodeStep(id)

SpecFilter == InitFilter /\ [][NextFilter]_vars


(***************************************************************************)
(* SpecUser: what the rendered interface lets the user do to the nodes:    *)
(* the add button, the sidebar's delete button (rendered while the         *)
(* selected id names a node), and pointerdowns on cards and canvas as time *)
(* passes                                                                  *)
(***************************************************************************)
DeleteSelectedStep ==
    /\ sidebarShown
    /\ DeleteNodeStep(selectedNode)

SidebarAddEdgeStep(type) ==
    /\ sidebarShown
    /\ Len(edges) < MaxEdges - 1
    /\ AddEdgeStep(type)

\* (these specifications follow the store up to one node and one edge
\* fewer than SpecStore does)
UserAddNodeStep(r) ==
    /\ Len(nodes) < MaxNodes - 1
    /\ AddNodeStep(r)

InitUser == Start(FALSE)

NextUser ==
    \/ \E t \in StoreInstants : Tick(t)
    \/ \E i \in 1..Len(filteredNodes), p \in TapPoints : NodeDown(i, p)
    \/ \E p \in TapPoints : CanvasDown(p)
    \/ Up
    \/ BlurStep
    \/ \E r \in Randoms : UserAddNodeStep(r)
    \/ DeleteSelectedStep

SpecUser == InitUser /\ [][NextUser]_vars

(***************************************************************************)
(* SpecGraph: the same buttons with the edge handlers, at one instant      *)
(***************************************************************************)
InitGraph == Start(FALSE)

NextGraph ==
    \/ \E i \in 1..Len(filteredNodes), p \in TapPoints : NodeDown(i, p)
    \/ \E r \in Randoms : UserAddNodeStep(r)
    \/ DeleteSelectedStep
    \/ \E type \in {"primary", "alias"} : SidebarAddEdgeStep(type)
    \/ \E id \in EdgeIds : DeleteEdgeStep(id)

SpecGraph == InitGraph /\ [][NextGraph]_vars

(***************************************************************************)
(* SpecCards: drags of every card, of added cards too, while nodes are     *)
(* added and deleted                                                       *)
(***************************************************************************)
InitCards == Start(FALSE)

NextCards ==
    \/ \E i \in 1..Len(filteredNodes), p \in TapPoints : NodeDown(i, p)
    \/ \E p \in Points : Move(p)
    \/ Up
    \/ \E r \in Randoms : UserAddNodeStep(r)
    \/ DeleteSelectedStep

SpecCards == InitCards /\ [][NextCards]_vars

(***************************************************************************)
(* Properties                                                              *)
(***************************************************************************)

\* C1: in every reachable state the zoom factor lies in [0.5, 2], whatever
\* sequence of wheel events, zoom-in steps, zoom-out steps and resets is
\* applied, in any order and interleaved with pointer events.
C1_ZoomInRange == RLe(Frac(1, 2), zoom) /\ RLe(zoom, Num(2))

\* a wheel notch towards zooming out arrived at the lower end of the range,
\* in the middle of a node drag
C1_Witness ==
    /\ ev = <<"wheel", NULL, 100>>
    /\ zoom = Frac(1, 2)
    /\ dragNode # NULL

\* C2: deleting node id, for every id (one that names no node included),
\* leaves exactly the edges whose two endpoints both differ from id, in
\* their earlier order, and exactly the nodes whose id differs from id, in
\* their earlier order.
C2_DeleteNodeFilters ==
    [][\A id \in NodeIds \cup {Stale} :
        DeleteNodeStep(id) =>
            LET keptE == {i \in 1..Len(edges) :
                            edges[i].from # id /\ edges[i].to # id}
                keptN == {i \in 1..Len(nodes) : nodes[i].id # id}
                rankE(i) == Cardinality({k \in keptE : k <= i})
                rankN(i) == Cardinality({k \in keptN : k <= i})
            IN  /\ Len(edges') = Cardinality(keptE)
                /\ \A i \in keptE : edges'[rankE(i)] = edges[i]
                /\ Len(nodes') = Cardinality(keptN)
                /\ \A i \in keptN : nodes'[rankN(i)] = nodes[i]]_vars

\* a deletion took a node and one of the two edges with it
C2_Witness ==
    /\ ev[1] = "deleteNode"
    /\ Len(nodes) = 2
    /\ Len(edges) = 1
    /\ selectedNode = NULL

\* C3: the nodes of the store have pairwise distinct ids in every reachable
\* state, two nodes added at the same clock value included.
C3_NodeIdsDistinct ==
    \A i, j \in 1..Len(nodes) : i # j => nodes[i].id # nodes[j].id

\* C4: the visible nodes are exactly the nodes whose text, case-folded,
\* contains the case-folded query, in store order; with a non-empty query
\* the visible edges are exactly the edges whose two endpoints are both ids
\* of visible nodes, and with an empty query they are all the edges.
C4_ViewFilter ==
    LET fold(c) == IF (65 <= c /\ c <= 90) \/ (1040 <= c /\ c <= 1071)
                   THEN c + 32 ELSE c
        matches(t) ==
            \E k \in 0..(Len(t) - Len(searchQuery)) :
                \A j \in 1..Len(searchQuery) :
                    fold(t[k + j]) = fold(searchQuery[j])
        vis == {i \in 1..Len(nodes) : matches(nodes[i].text)}
        visIds == {nodes[i].id : i \in vis}
        evis == {i \in 1..Len(edges) :
                    \/ searchQuery = <<>>
                    \/ edges[i].from \in visIds /\ edges[i].to \in visIds}
        rankN(i) == Cardinality({k \in vis : k <= i})
        rankE(i) == Cardinality({k \in evis : k <= i})
    IN  /\ Len(filteredNodes) = Cardinality(vis)
        /\ \A i \in vis : filteredNodes[rankN(i)] = nodes[i]
        /\ Len(filteredEdges) = Cardinality(evis)
        /\ \A i \in evis : filteredEdges[rankE(i)] = edges[i]

\* the query "BE" shows two of three nodes ("beta" and "ALBE" match, in
\* either case) and the one edge between them; the edge to the hidden node
\* is hidden
C4_Witness ==
    /\ searchQuery = <<66, 69>>
    /\ Len(nodes) = 3
    /\ Len(filteredNodes) = 2
    /\ Len(edges) = 2
    /\ Len(filteredEdges) = 1

\* C5, as stated: a pointer-down on any node n (the node of the earlier
\* down-event or another) that arrives less than 300 ms after the reference
\* time puts n into edit mode, and leaves the drag target and the grab
\* offset as they were.
C5_DoubleTapWithinWindow ==
    [][\A i \in 1..Len(filteredNodes), p \in TapPoints :
        (/\ NodeDown(i, p)
         /\ lastTap # 0
         /\ clock - lastTap >= 0
         /\ clock - lastTap < TapWindow)
        => /\ editingNode' = filteredNodes[i].id
           /\ UNCHANGED <<dragNode, dragOffset>>]_vars

\* C5, amended: a pointer-down on any node n that arrives more than 0 ms
\* and less than 300 ms after the reference time puts n into edit mode, and
\* leaves the drag target and the grab offset as they were.
C5_DoubleTapAfterAnInstant ==
    [][\A i \in 1..Len(filteredNodes), p \in TapPoints :
        (/\ NodeDown(i, p)
         /\ lastTap # 0
         /\ clock - lastTap > 0
         /\ clock - lastTap < TapWindow)
        => /\ editingNode' = filteredNodes[i].id
           /\ UNCHANGED <<dragNode, dragOffset>>]_vars

\* a second pointer-down, 299 ms after the first and on another node, put
\* that node into edit mode while the first node stayed selected
C5_Witness ==
    /\ ev[1] = "nodeDown"
    /\ ev[3] = TapWindow - 1
    /\ editingNode = ev[2]
    /\ selectedNode # NULL
    /\ selectedNode # ev[2]
    /\ lastTap = 0

\* C6: a pointer-down at screen point p on a node n that arrives 300 ms or
\* more after the reference time, or when there is none, does not change the
\* edit mode, makes n the drag target and the selection, records
\* toWorld(p) - pos(n) as the grab offset, and makes this event's time the
\* reference time.
C6_FreshTap ==
    [][\A i \in 1..Len(filteredNodes), p \in TapPoints :
        (/\ NodeDown(i, p)
         /\ (lastTap = 0 \/ clock - lastTap >= TapWindow))
        => LET n == filteredNodes[i]
           IN  /\ editingNode' = editingNode
               /\ dragNode' = n.id
               /\ selectedNode' = n.id
               /\ lastTap' = clock
               /\ dragOffset' =
                    Point(RSub(RDiv(RSub(Num(p[1]), pan.x), zoom), n.x),
                          RSub(RDiv(RSub(Num(p[2]), pan.y), zoom), n.y))]_vars

\* a pointer-down exactly 300 ms after the previous one started a drag, in
\* a view that is panned and zoomed
C6_Witness ==
    /\ ev[1] = "nodeDown"
    /\ ev[3] = TapWindow
    /\ dragNode = ev[2]
    /\ selectedNode = ev[2]
    /\ lastTap = StartTime + TapWindow
    /\ editingNode = NULL
    /\ zoom = Frac(9, 10)
    /\ pan # Point(Num(0), Num(0))

C8_ResetOnlyView ==
    [][ResetStep =>
        /\ pan' = Point(Num(0), Num(0))
        /\ zoom' = Num(1)
        /\ UNCHANGED <<nodes, edges, selectedNode, editingNode, searchQuery,
                       dragNode, dragOffset, isPanning, panStart, isMobile,
                       showSidebar, lastTap>>]_vars

\* a reset of a view that was off its defaults, in the middle of a drag
\* that had already moved its node
C8_Witness ==
    /\ ev = <<"reset", NULL, 1>>
    /\ dragNode # NULL
    /\ grab.node = dragNode
    /\ grab.p # grab.p0
    /\ ~grab.stable

\* C9: with a node s selected and at least one node whose id differs from
\* s in the store, addEdge(type) appends exactly one edge, from s to the
\* first node in store order whose id differs from s, of the requested
\* type, and leaves the nodes and the selection alone.
C9_AddEdgeAppends ==
    [][\A type \in {"primary", "alias"} :
        (/\ AddEdgeStep(type)
         /\ selectedNode # NULL
         /\ \E i \in 1..Len(nodes) : nodes[i].id # selectedNode)
        => LET first == CHOOSE i \in 1..Len(nodes) :
                            /\ nodes[i].id # selectedNode
                            /\ \A k \in 1..(i - 1) : nodes[k].id = selectedNode
           IN  /\ Len(edges') = Len(edges) + 1
               /\ SubSeq(edges', 1, Len(edges)) = edges
               /\ edges'[Len(edges')].from = selectedNode
               /\ edges'[Len(edges')].to = nodes[first].id
               /\ edges'[Len(edges')].type = type
               /\ UNCHANGED <<nodes, selectedNode>>]_vars

\* an alias edge was added from the selected first node of the store to
\* the second node
C9_Witness ==
    /\ ev[1] = "addEdge"
    /\ toast = <<"success", "alias">>
    /\ Len(edges) = 3
    /\ Len(nodes) >= 2
    /\ selectedNode = nodes[1].id
    /\ edges[3].from = nodes[1].id
    /\ edges[3].to = nodes[2].id
    /\ edges[3].type = "alias"

\* C10: addEdge with no node selected, or with the selected node the only
\* node of the store, reports a failure and changes no state.
C10_AddEdgeFailureReported ==
    [][\A type \in {"primary", "alias"} :
        (/\ AddEdgeStep(type)
         /\ \/ selectedNode = NULL
            \/ Len(nodes) = 1 /\ nodes[1].id = selectedNode)
        => /\ toast'[1] = "error"
           /\ UNCHANGED prog]_vars


\* C11: deleteNode(id) sets the selection to null if it referenced id and
\* leaves it alone otherwise, and sets the edit-mode id to null if it
\* referenced id and leaves it alone otherwise.
C11_DeleteNodeClearsOnlyReferences ==
    [][\A id \in NodeIds \cup {Stale} :
        DeleteNodeStep(id) =>
            /\ selectedNode' = IF selectedNode = id THEN NULL ELSE selectedNode
            /\ editingNode' = IF editingNode = id THEN NULL ELSE editingNode]_vars

\* C12: updateNodeText, deleteNode, deleteEdge and the node pointer-down
\* handler, called with an id that is not in the store, change no state
\* and emit no notification.
C12_AbsentIdIsSilentNoOp ==
    [][(\/ DeleteNodeStep(Stale)
        \/ DeleteEdgeStep(Stale)
        \/ \E text \in Texts : UpdateTextStep(Stale, text)
        \/ \E p \in TapPoints : StaleDown(p))
       => /\ UNCHANGED prog
          /\ toast' = NoToast]_vars

\* C13: in every state reached by pointer-downs on cards and canvas,
\* moves, pointer-ups and pointer-leaves, a drag target and an active pan
\* flag never hold together.
C13_DragXorPan == ~(dragNode # NULL /\ isPanning)

\* C14: a pointer-down on a card never starts a canvas pan and never
\* clears the selection, on every branch of the node handler: the drag
\* start, the double-tap branch and the node-not-found branch.
C14_NodeDownNeverPans ==
    [][(\/ \E i \in 1..Len(filteredNodes), p \in TapPoints : NodeDown(i, p)
        \/ \E p \in TapPoints : StaleDown(p))
       => /\ isPanning' = isPanning
          /\ panStart' = panStart
          /\ pan' = pan
          /\ selectedNode # NULL => selectedNode' # NULL]_vars

\* a double tap on another card went through the canvas handler as well:
\* no pan has started and the selection is still there
C14_Witness ==
    /\ ev[1] = "nodeDown"
    /\ lastDown = "double"
    /\ editingNode = ev[2]
    /\ selectedNode # NULL
    /\ selectedNode # editingNode
    /\ dragNode = NULL
    /\ ~isPanning

\* C16: a pointer-down on empty canvas at p0 clears the selection and
\* starts a pan with anchor p0 - pan; a move to p while panning and not
\* dragging sets pan to p - anchor and leaves zoom and nodes alone; a
\* pointer-up or pointer-leave ends pan and drag; a move with neither
\* active changes neither pan nor nodes.
C16_PanFollowsPointer ==
    [][/\ \A p \in Points :
            CanvasDown(p) =>
                /\ selectedNode' = NULL
                /\ isPanning'
                /\ panStart' = Point(RSub(Num(p[1]), pan.x),
                                     RSub(Num(p[2]), pan.y))
                /\ UNCHANGED <<pan, zoom, nodes>>
       /\ \A p \in Points :
            (Move(p) /\ isPanning /\ dragNode = NULL) =>
                /\ pan' = Point(RSub(Num(p[1]), panStart.x),
                                RSub(Num(p[2]), panStart.y))
                /\ UNCHANGED <<zoom, nodes, panStart, isPanning>>
       /\ Up => (dragNode' = NULL /\ ~isPanning')
       /\ \A p \in Points :
            (Move(p) /\ ~isPanning /\ dragNode = NULL) =>
                UNCHANGED <<pan, zoom, nodes>>]_vars

\* a pan that started at (150, 60) in the view panned by (30, -30) has
\* followed the pointer to (120, 90): pan has changed by (-30, 30)
C16_Witness ==
    /\ ev[1] = "move"
    /\ isPanning
    /\ dragNode = NULL
    /\ selectedNode = NULL
    /\ panStart = Point(Num(120), Num(90))
    /\ pan = Point(Num(0), Num(0))
    /\ zoom = Frac(9, 10)
    /\ nodes = InitNodes

C17_NoDanglingEdge ==
    \A i \in 1..Len(edges) :
        /\ \E k \in 1..Len(nodes) : nodes[k].id = edges[i].from
        /\ \E k \in 1..Len(nodes) : nodes[k].id = edges[i].to

\* node '1' is gone and its edge with it, and an edge has been added that
\* starts at a node made by addNode
C17_Witness ==
    /\ ev[1] = "addEdge"
    /\ toast[1] = "success"
    /\ \A k \in 1..Len(nodes) : nodes[k].id # <<"1">>
    /\ Len(edges) = 2
    /\ edges[1].id = <<"e", "2">>
    /\ edges[2].from = toString(StartTime)
    /\ selectedNode = toString(StartTime)

\* C18: in every reachable state the selected id is null or the id of a
\* node in the store, and the edit-mode id is null or the id of a node in
\* the store.
C18_SessionPointsAtNodes ==
    /\ selectedNode = NULL \/ \E k \in 1..Len(nodes) : nodes[k].id = selectedNode
    /\ editingNode = NULL \/ \E k \in 1..Len(nodes) : nodes[k].id = editingNode

\* the selected node has just been deleted after a double tap had put
\* another node into edit mode
C18_Witness ==
    /\ ev[1] = "deleteNode"
    /\ lastDown = "double"
    /\ Len(nodes) = 2
    /\ selectedNode = NULL
    /\ editingNode = NULL

\* C19: edge ids are pairwise distinct in every reachable state, two
\* addEdge calls at the same clock value included.
C19_EdgeIdsDistinct ==
    \A i, j \in 1..Len(edges) : i # j => edges[i].id # edges[j].id

\* C20: the node pointer-down that follows a double tap is a fresh first
\* tap, however soon it arrives: it leaves the edit mode alone, starts a
\* drag, sets the selection and becomes the reference time.
C20_DoubleTapConsumesPair ==
    [][\A i \in 1..Len(filteredNodes), p \in TapPoints :
        (NodeDown(i, p) /\ lastDown = "double")
        => /\ editingNode' = editingNode
           /\ dragNode' = filteredNodes[i].id
           /\ selectedNode' = filteredNodes[i].id
           /\ lastTap' = clock]_vars

\* a third tap, in the same millisecond as the double tap before it, has
\* started a drag; the node of the second tap is still the one in edit mode
C20_Witness ==
    /\ ev[1] = "nodeDown"
    /\ ev[3] = StartTime + TapWindow - 1
    /\ clock = StartTime + TapWindow - 1
    /\ lastDown = "first"
    /\ editingNode # NULL
    /\ dragNode = ev[2]
    /\ selectedNode = ev[2]
    /\ lastTap = clock
====
